---------------------------- MODULE Spec2Model ----------------------------
(***************************************************************************)
(* A model of the fixed-size thread pool of src/src/lib.rs: ThreadPool     *)
(* (new, execute, Drop) and the loop each Worker thread runs.              *)
(*                                                                         *)
(* The std library pieces the code stands on are modelled by what they do: *)
(*   mpsc::channel   an unbounded FIFO queue; send fails once the Receiver *)
(*                   is gone, recv blocks while the queue is empty and a   *)
(*                   Sender lives, and fails once it is empty and no       *)
(*                   Sender is left; dropping the Receiver discards what   *)
(*                   is still queued;                                      *)
(*   Arc<Mutex<..>>  one lock, poisoned when its guard is dropped by a     *)
(*                   panicking thread; the Receiver is dropped with the    *)
(*                   last clone of the Arc, that is when the last worker   *)
(*                   thread ends;                                          *)
(*   JoinHandle      join blocks until the thread has ended and returns    *)
(*                   Err when it ended by a panic.                         *)
(* A job is known by its submission number; its body either returns,       *)
(* panics or never returns.                                                *)
(***************************************************************************)
EXTENDS Naturals, Sequences, FiniteSets

\* Largest size handed to ThreadPool::new.
MaxSize == 2
\* Number of execute calls made in one behaviour.
MaxJobs == 3
\* Number of times the body of drop is run on one pool.
MaxDrops == 2

VARIABLES
    ctor,       \* outcome of ThreadPool::new: "pending", "ok" or "panicked"
    size,       \* the argument of ThreadPool::new
    chan,       \* TRUE once mpsc::channel() has been called
    workers,    \* ThreadPool.workers: Vec<Worker>, records [id, thread]
    sender,     \* ThreadPool.sender: "Some" or "None"
    queue,      \* the jobs sent and not yet received, oldest first
    lock,       \* holder of the Mutex around the Receiver (0: free)
    poisoned,   \* the Mutex's poison flag
    wpc,        \* position of each worker thread in its loop
    cur,        \* the job each worker thread holds (0: none)
    kind,       \* kind[j]: what the body of job j does
    result,     \* result[j]: how execute ended for job j: "ok" or "panic"
    recvLog,    \* the jobs in the order recv returned them
    runs,       \* runs[j]: how many times the body of job j was called
    finished,   \* the jobs whose body returned
    discarded,  \* the jobs dropped with the Receiver, never run
    dpc,        \* position of the thread running drop
    di,         \* index in workers of drop's for loop
    joined,     \* joined[i]: how many times worker i's thread was joined
    drops       \* how many times the body of drop was entered

vars == <<ctor, size, chan, workers, sender, queue, lock, poisoned, wpc, cur,
          kind, result, recvLog, runs, finished, discarded, dpc, di, joined,
          drops>>

JobKinds == {"ret", "panic", "hang"}

Terminated == {"exited", "panicked"}

Range(s) == {s[n] : n \in DOMAIN s}

Occurrences(s, x) == Cardinality({n \in DOMAIN s : s[n] = x})

Jobs == DOMAIN kind

Accepted == {j \in Jobs : result[j] = "ok"}

Rejected == {j \in Jobs : result[j] = "panic"}

WorkerIds == DOMAIN workers

(***************************************************************************)
(* ThreadPool::new                                                         *)
(***************************************************************************)

\* A constructor without its assertion.
AnySize(n) == TRUE

\* assert!(size > 0)
SizeOk(n) == n > 0

\* for id in 0..size { workers.push(Worker::new(id, ..)) }
SpawnedWorkers(n) == [i \in 1..n |-> [id |-> i - 1, thread |-> "Some"]]

Init ==
    /\ ctor = "pending"
    /\ size = 0
    /\ chan = FALSE
    /\ workers = <<>>
    /\ sender = "None"
    /\ queue = <<>>
    /\ lock = 0
    /\ poisoned = FALSE
    /\ wpc = <<>>
    /\ cur = <<>>
    /\ kind = <<>>
    /\ result = <<>>
    /\ recvLog = <<>>
    /\ runs = <<>>
    /\ finished = {}
    /\ discarded = {}
    /\ dpc = "idle"
    /\ di = 0
    /\ joined = <<>>
    /\ drops = 0

New(n) ==
    /\ ctor = "pending"
    /\ size' = n
    /\ IF SizeOk(n)
       THEN /\ ctor' = "ok"
            /\ chan' = TRUE
            /\ workers' = SpawnedWorkers(n)
            /\ wpc' = [i \in 1..n |-> "lock"]
            /\ cur' = [i \in 1..n |-> 0]
            /\ joined' = [i \in 1..n |-> 0]
            /\ sender' = "Some"
       ELSE /\ ctor' = "panicked"
            /\ UNCHANGED <<chan, workers, wpc, cur, joined, sender>>
    /\ UNCHANGED <<queue, lock, poisoned, kind, result, recvLog, runs,
                   finished, discarded, dpc, di, drops>>

(***************************************************************************)
(* The channel and the shared receiver                                     *)
(***************************************************************************)

\* The Receiver lives as long as one clone of the Arc does: each worker
\* thread's closure owns one until the thread ends.
ReceiverAlive(w) == \E i \in DOMAIN w : w[i] \notin Terminated

\* A send that succeeds with no Receiver left.
SendIgnoringReceiver == sender = "Some"

\* An execute that sends without looking at self.sender.
SendIgnoringSender == ReceiverAlive(wpc)

\* self.sender.as_ref().unwrap().send(job).unwrap() returns normally.
SendOk == sender = "Some" /\ ReceiverAlive(wpc)

\* A channel of capacity one: send waits while a job is queued.
SendBlocksWhenBusy == queue # <<>>

\* send has to wait: never, mpsc::channel() is unbounded.
SendBlocks == FALSE

\* A send that puts the job in front of the jobs queued.
EnqueueAtFront(q, j) == <<j>> \o q

\* What send leaves in the queue.
Enqueue(q, j) == Append(q, j)

\* A recv that fails as soon as no Sender is left, jobs queued or not.
DisconnectedIgnoringQueue == sender = "None"

\* recv returns Err: nothing is queued and no Sender is left.
Disconnected == queue = <<>> /\ sender = "None"

\* A recv that hands out the oldest job and leaves it queued.
QueueAfterPeek(q) == q

\* What recv leaves in the queue when it returns Ok.
QueueAfterRecv(q) == Tail(q)

\* The queue once the worker threads are in the states w: dropping the
\* Receiver drops the jobs still queued.
QueueAfterExit(q, w) == IF ReceiverAlive(w) THEN q ELSE <<>>

\* A worker that keeps the guard while the job runs.
LockKeptWhileRunning(i) == i

\* The holder of the lock once worker i's statement
\* `let message = receiver.lock().unwrap().recv();' has ended: the guard is
\* a temporary of that statement.
LockAfterRecv(i) == 0

\* The lock once thread i has dropped whatever guard it holds.
ReleaseGuard(i) == IF lock = i THEN 0 ELSE lock

(***************************************************************************)
(* ThreadPool::execute                                                     *)
(***************************************************************************)

Execute(k) ==
    /\ ctor = "ok"
    /\ Len(kind) < MaxJobs
    /\ ~SendBlocks
    /\ kind' = Append(kind, k)
    /\ runs' = Append(runs, 0)
    /\ IF SendOk
       THEN /\ queue' = Enqueue(queue, Len(kind) + 1)
            /\ result' = Append(result, "ok")
       ELSE /\ queue' = queue
            /\ result' = Append(result, "panic")
    /\ UNCHANGED <<ctor, size, chan, workers, sender, lock, poisoned, wpc,
                   cur, recvLog, finished, discarded, dpc, di, joined, drops>>

(***************************************************************************)
(* The worker thread: the closure of Worker::new                           *)
(***************************************************************************)

\* The thread of worker i ends in state s; its clone of the Arc goes.
ThreadEnds(i, s) ==
    LET w == [wpc EXCEPT ![i] = s]
    IN  /\ wpc' = w
        /\ queue' = QueueAfterExit(queue, w)
        /\ discarded' = discarded \cup (Range(queue) \ Range(queue'))

\* receiver.lock().unwrap()
Lock(i) ==
    /\ i \in WorkerIds
    /\ wpc[i] = "lock"
    /\ lock = 0
    /\ IF poisoned
       THEN /\ ThreadEnds(i, "panicked")
            /\ lock' = lock
       ELSE /\ wpc' = [wpc EXCEPT ![i] = "recv"]
            /\ lock' = i
            /\ UNCHANGED <<queue, discarded>>
    /\ UNCHANGED <<ctor, size, chan, workers, sender, poisoned, cur, kind,
                   result, recvLog, runs, finished, dpc, di, joined, drops>>

\* .recv() returns Ok(job); the guard is released; job() is called.
RecvOk(i) ==
    /\ i \in WorkerIds
    /\ wpc[i] = "recv"
    /\ queue # <<>>
    /\ queue' = QueueAfterRecv(queue)
    /\ lock' = LockAfterRecv(i)
    /\ cur' = [cur EXCEPT ![i] = Head(queue)]
    /\ recvLog' = Append(recvLog, Head(queue))
    /\ runs' = [runs EXCEPT ![Head(queue)] = @ + 1]
    /\ wpc' = [wpc EXCEPT ![i] = "run"]
    /\ UNCHANGED <<ctor, size, chan, workers, sender, poisoned, kind, result,
                   finished, discarded, dpc, di, joined, drops>>

\* .recv() returns Err: the queue is empty and the Sender is gone; break.
RecvErr(i) ==
    /\ i \in WorkerIds
    /\ wpc[i] = "recv"
    /\ Disconnected
    /\ lock' = 0
    /\ ThreadEnds(i, "exited")
    /\ UNCHANGED <<ctor, size, chan, workers, sender, poisoned, cur, kind,
                   result, recvLog, runs, finished, dpc, di, joined, drops>>

\* job() returns; the loop goes round.
JobReturns(i) ==
    /\ i \in WorkerIds
    /\ wpc[i] = "run"
    /\ kind[cur[i]] = "ret"
    /\ finished' = finished \cup {cur[i]}
    /\ cur' = [cur EXCEPT ![i] = 0]
    /\ lock' = ReleaseGuard(i)
    /\ wpc' = [wpc EXCEPT ![i] = "lock"]
    /\ UNCHANGED <<ctor, size, chan, workers, sender, queue, poisoned, kind,
                   result, recvLog, runs, discarded, dpc, di, joined, drops>>

\* job() panics; the thread unwinds and ends.
JobPanics(i) ==
    /\ i \in WorkerIds
    /\ wpc[i] = "run"
    /\ kind[cur[i]] = "panic"
    /\ poisoned' = (poisoned \/ lock = i)
    /\ lock' = ReleaseGuard(i)
    /\ ThreadEnds(i, "panicked")
    /\ UNCHANGED <<ctor, size, chan, workers, sender, cur, kind, result,
                   recvLog, runs, finished, dpc, di, joined, drops>>

Worker(i) == Lock(i) \/ RecvOk(i) \/ RecvErr(i) \/ JobReturns(i) \/ JobPanics(i)

(***************************************************************************)
(* Drop for ThreadPool                                                     *)
(***************************************************************************)

\* The index the for loop moves to after worker i, and where drop is then.
LoopAfter(i) == IF i < Len(workers) THEN <<"loop", i + 1>> ELSE <<"done", i + 1>>

\* What thread.join().unwrap() does once the thread has ended in state s.
AfterJoin(i, s) == IF s = "panicked" THEN <<"panicked", i>> ELSE LoopAfter(i)

\* A drop that keeps the Sender while it joins.
SenderKept == "Some"

\* What self.sender.take() leaves in self.sender.
SenderAfterTake == "None"

\* A take that leaves the handle where it was.
HandleKept == "Some"

\* What worker.thread.take() leaves in worker.thread.
HandleAfterTake == "None"

\* A join that does not wait for the thread.
JoinReturnsAtOnce(i) == TRUE

\* thread.join() on worker i's thread returns: the thread has ended.
JoinReturns(i) == wpc[i] \in Terminated

\* drop(self.sender.take());
DropStart ==
    /\ ctor = "ok"
    /\ \/ dpc = "idle"
       \/ dpc = "done" /\ drops < MaxDrops
    /\ sender' = SenderAfterTake
    /\ drops' = drops + 1
    /\ dpc' = "loop"
    /\ di' = 1
    /\ UNCHANGED <<ctor, size, chan, workers, queue, lock, poisoned, wpc, cur,
                   kind, result, recvLog, runs, finished, discarded, joined>>

\* if let Some(thread) = worker.thread.take()
DropTake ==
    /\ dpc = "loop"
    /\ IF workers[di].thread = "Some"
       THEN /\ workers' = [workers EXCEPT ![di].thread = HandleAfterTake]
            /\ dpc' = "join"
            /\ di' = di
       ELSE /\ workers' = workers
            /\ dpc' = LoopAfter(di)[1]
            /\ di' = LoopAfter(di)[2]
    /\ UNCHANGED <<ctor, size, chan, sender, queue, lock, poisoned, wpc, cur,
                   kind, result, recvLog, runs, finished, discarded, joined,
                   drops>>

\* thread.join().unwrap();
DropJoin ==
    /\ dpc = "join"
    /\ JoinReturns(di)
    /\ joined' = [joined EXCEPT ![di] = @ + 1]
    /\ dpc' = AfterJoin(di, wpc[di])[1]
    /\ di' = AfterJoin(di, wpc[di])[2]
    /\ UNCHANGED <<ctor, size, chan, workers, sender, queue, lock, poisoned,
                   wpc, cur, kind, result, recvLog, runs, finished, discarded,
                   drops>>

Drop == DropTake \/ DropJoin

Next ==
    \/ \E n \in 0..MaxSize : New(n)
    \/ \E k \in JobKinds : Execute(k)
    \/ \E i \in 1..MaxSize : Worker(i)
    \/ DropStart
    \/ Drop

Spec == Init /\ [][Next]_vars

\* The worker threads and the thread inside drop keep being scheduled; the
\* callers of execute and of drop are free to stop.
FairSpec ==
    /\ Spec
    /\ \A i \in 1..MaxSize : WF_vars(Worker(i))
    /\ WF_vars(Drop)

(***************************************************************************)
(* Properties                                                              *)
(***************************************************************************)

\* Every job accepted so far has a body that returns.
AllReturn == \A j \in Accepted : kind[j] = "ret"

\* The workers holding job j.
Holders(j) == {i \in WorkerIds : cur[i] = j}

\* C1: whatever the pool size and the interleaving, no job is received by
\* two workers or run a second time: recv hands each job out at most once,
\* to one worker, its body is called at most once, and only a job that was
\* accepted and has left the queue is ever held or run.
C1_AtMostOnce ==
    \A j \in Jobs :
        /\ Occurrences(recvLog, j) <= 1
        /\ runs[j] <= 1
        /\ Cardinality(Holders(j)) <= 1
        /\ runs[j] = Occurrences(recvLog, j)
        /\ (runs[j] = 1 => j \in Accepted /\ j \notin Range(queue))

\* Two workers of one pool each hold a job of their own at the same time.
C1_Witness ==
    /\ Len(workers) >= 2
    /\ \E i, k \in WorkerIds :
        i # k /\ wpc[i] = "run" /\ wpc[k] = "run" /\ cur[i] # cur[k]

\* C2: under fair scheduling of the worker threads, and as long as every
\* job body returns, each job execute accepted is eventually run to its end,
\* once and by one worker, whether or not the pool is dropped meanwhile.
\* (Accepted only grows, so "some accepted body does not return" is stable:
\* reaching it is how a behaviour leaves the claim's assumption.)
C2_EventuallyExecuted ==
    \A j \in 1..MaxJobs :
        (j \in Accepted) ~>
            (\/ ~AllReturn
             \/ j \in finished /\ runs[j] = 1 /\ Occurrences(recvLog, j) = 1)

\* Every job accepted has been run to its end, some of them received after
\* the pool gave up its Sender.
C2_Witness ==
    /\ AllReturn
    /\ Cardinality(Accepted) >= 2
    /\ Accepted = finished
    /\ sender = "None"

\* C3: when drop has returned and every job body returns, every job accepted
\* (more of them than workers included) has been run to its end exactly
\* once: none is still queued, still running, or lost.
C3_GracefulDrain ==
    (dpc = "done" /\ AllReturn) =>
        /\ \A j \in Accepted : j \in finished /\ runs[j] = 1
        /\ queue = <<>>
        /\ discarded = {}
        /\ \A i \in WorkerIds : wpc[i] # "run"

\* drop has returned on a pool that was given more jobs than it has workers.
C3_Witness ==
    /\ dpc = "done"
    /\ AllReturn
    /\ Cardinality(Accepted) > Len(workers)
    /\ Accepted = finished

\* C4: under fair scheduling, and as long as every job body returns, a drop
\* that has started returns, and by then every worker has seen the closed
\* channel and left its loop.
C4_TeardownTerminates ==
    (dpc \in {"loop", "join"}) ~>
        (\/ ~AllReturn
         \/ dpc = "done" /\ \A i \in WorkerIds : wpc[i] = "exited")

\* drop has returned after waiting for workers that were blocked in recv or
\* on the lock, with jobs run meanwhile.
C4_Witness ==
    /\ dpc = "done"
    /\ drops = 1
    /\ Len(workers) >= 2
    /\ finished # {}
    /\ \A i \in WorkerIds : wpc[i] = "exited"

\* C5: no thread handle is ever joined twice, and when drop has returned
\* every worker's thread has ended, its handle has been taken, and it was
\* joined exactly once.
C5_JoinedOnce ==
    /\ \A i \in WorkerIds : joined[i] <= 1
    /\ dpc = "done" =>
        \A i \in WorkerIds :
            /\ wpc[i] \in Terminated
            /\ workers[i].thread = "None"
            /\ joined[i] = 1

\* drop has returned a second time on the same pool.
C5_Witness ==
    /\ dpc = "done"
    /\ drops = 2
    /\ \A i \in WorkerIds : joined[i] = 1

\* C6: an execute called once the pool has given up its Sender panics and
\* leaves the queue as it was; and a job whose execute panicked is never
\* queued, received, held or run.
C6_PostShutdownRejection ==
    /\ [][(Len(kind') = Len(kind) + 1 /\ sender = "None") =>
            /\ result'[Len(kind')] = "panic"
            /\ queue' = queue
            /\ wpc' = wpc /\ cur' = cur /\ recvLog' = recvLog]_vars
    /\ [](\A j \in Rejected :
            /\ j \notin Range(queue)
            /\ j \notin Range(recvLog)
            /\ Holders(j) = {}
            /\ runs[j] = 0
            /\ j \notin finished)

\* An execute was turned down by a pool that had run jobs before its
\* shutdown, no worker having panicked.
C6_Witness ==
    /\ sender = "None"
    /\ Rejected # {}
    /\ Accepted # {}
    /\ Accepted = finished
    /\ \A i \in WorkerIds : wpc[i] # "panicked"

\* C7: ThreadPool::new(0) panics with no channel created and no worker
\* spawned; for a size N > 0 the pool holds N workers with ids 0..N-1 in
\* ascending order, one thread each, and holds its Sender until drop.
C7_Construction ==
    /\ (ctor # "pending" /\ size = 0) =>
        /\ ctor = "panicked"
        /\ ~chan
        /\ workers = <<>>
        /\ wpc = <<>>
        /\ sender = "None"
    /\ ctor = "panicked" => size = 0
    /\ ctor = "ok" =>
        /\ chan
        /\ Len(workers) = size
        /\ \A i \in 1..size : workers[i].id = i - 1
        /\ DOMAIN wpc = 1..size
        /\ drops = 0 => sender = "Some" /\ \A i \in 1..size : workers[i].thread = "Some"

\* ThreadPool::new(0) has panicked.
C7_Witness == ctor = "panicked" /\ size = 0 /\ workers = <<>>

\* C8: when teardown has ended, by drop returning or by drop panicking, and
\* some worker's thread had panicked, every other worker's handle has been
\* taken and joined.
C8_JoinsAllOthers ==
    dpc \in {"done", "panicked"} =>
        \A i \in WorkerIds :
            wpc[i] = "panicked" =>
                \A k \in WorkerIds \ {i} :
                    workers[k].thread = "None" /\ joined[k] >= 1

\* C9: the lock is never poisoned, so a worker waiting for the free lock can
\* take it and go on to recv, whoever has panicked; and a worker thread only
\* ever ends by a panic when the job it is running panics; that step ends
\* this worker alone: the other workers stay where they are, the collection
\* of workers is unchanged, the job is not back in the queue, and the lock,
\* which the panicking worker does not hold, stays as it is.
C9_PanicIsolation ==
    /\ [](~poisoned)
    /\ [](\A k \in WorkerIds :
            (wpc[k] = "lock" /\ lock = 0) =>
                ENABLED (Lock(k) /\ wpc'[k] = "recv"))
    /\ [][\A i \in WorkerIds :
            (wpc[i] # "panicked" /\ wpc'[i] = "panicked") =>
                /\ wpc[i] = "run"
                /\ kind[cur[i]] = "panic"
                /\ \A k \in WorkerIds \ {i} : wpc'[k] = wpc[k] /\ cur'[k] = cur[k]
                /\ workers' = workers
                /\ cur[i] \notin Range(queue')
                /\ runs' = runs
                /\ lock # i
                /\ lock' = lock]_vars

\* A worker has panicked, and another worker has since finished one later
\* job and is running the next.
C9_Witness ==
    \E i, k \in WorkerIds :
        /\ wpc[i] = "panicked"
        /\ wpc[k] = "run"
        /\ cur[k] > cur[i]
        /\ \E j \in finished : j > cur[i]

\* C10: while the pool holds its Sender, every job execute accepted is
\* queued, held by a worker, or has been run; none has been dropped unrun.
C10_NoSilentDrop ==
    (ctor = "ok" /\ sender = "Some") =>
        /\ \A j \in Accepted :
            j \in Range(queue) \/ Holders(j) # {} \/ runs[j] >= 1
        /\ discarded = {}

\* The position of job j in the order of receipt (0: not received).
RecvPos(j) == IF j \in Range(recvLog)
              THEN CHOOSE n \in DOMAIN recvLog : recvLog[n] = j
              ELSE 0

\* C11: at most one worker holds the receiver lock, the holder is the one
\* worker inside recv, and no worker holds it while it runs a job; so a
\* worker at the free lock can take it and a worker inside recv with a job
\* queued can receive it, whatever the other workers are running.
C11_LockOnlyAroundDequeue ==
    /\ Cardinality({i \in WorkerIds : wpc[i] = "recv"}) <= 1
    /\ \A i \in WorkerIds :
        /\ lock = i <=> wpc[i] = "recv"
        /\ wpc[i] = "run" => lock # i
        /\ (wpc[i] = "lock" /\ lock = 0) => ENABLED Lock(i)
        /\ (wpc[i] = "recv" /\ queue # <<>>) => ENABLED RecvOk(i)
    /\ lock \in WorkerIds \cup {0}

\* One worker is stuck in a job that never returns, and another worker has
\* since finished a later job and is running one more, at the same time.
C11_Witness ==
    \E i, k \in WorkerIds :
        /\ wpc[i] = "run" /\ kind[cur[i]] = "hang"
        /\ wpc[k] = "run"
        /\ cur[k] > cur[i]
        /\ \E j \in finished : j > cur[i]

\* C12: jobs are received in the order they were enqueued: the order of
\* receipt is that of submission, and a job is received only after every
\* job accepted before it; what is queued is the jobs accepted later, oldest
\* first.
C12_Fifo ==
    /\ \A m, n \in DOMAIN recvLog : m < n => recvLog[m] < recvLog[n]
    /\ \A a, b \in Accepted :
        (a < b /\ b \in Range(recvLog)) =>
            /\ a \in Range(recvLog)
            /\ RecvPos(a) < RecvPos(b)
    /\ \A m, n \in DOMAIN queue : m < n => queue[m] < queue[n]
    /\ \A a \in Range(recvLog), b \in Range(queue) : a < b

\* Two workers are running the two jobs received so far, and a job accepted
\* after them is still queued.
C12_Witness ==
    /\ Len(workers) >= 2
    /\ Len(recvLog) = 2
    /\ Len(queue) >= 1
    /\ \A i \in WorkerIds : wpc[i] = "run"

\* C13: while the pool holds its Sender and a worker thread lives, execute
\* can complete, however many jobs are queued and whatever the workers are
\* doing (the model stops only at its number of calls); the call puts
\* exactly its job at the tail of the queue and leaves the workers, their
\* threads and handles, the lock, the Sender and drop where they were; the
\* job has not started when the call returns.
C13_ExecuteNeverBlocks ==
    /\ [](  (/\ ctor = "ok"
             /\ sender = "Some"
             /\ ReceiverAlive(wpc)
             /\ Len(kind) < MaxJobs) =>
                ENABLED (Execute("ret") /\ result'[Len(kind')] = "ok"))
    /\ [][(/\ Len(kind') = Len(kind) + 1
           /\ sender = "Some"
           /\ ReceiverAlive(wpc)) =>
            /\ result'[Len(kind')] = "ok"
            /\ queue' = Append(queue, Len(kind'))
            /\ runs'[Len(kind')] = 0
            /\ wpc' = wpc /\ cur' = cur /\ lock' = lock
            /\ workers' = workers /\ joined' = joined
            /\ sender' = sender /\ dpc' = dpc
            /\ recvLog' = recvLog /\ finished' = finished]_vars

\* Every worker is running a job, and execute has queued its job behind one
\* that was already waiting.
C13_Witness ==
    /\ sender = "Some"
    /\ \A i \in WorkerIds : wpc[i] = "run"
    /\ Len(queue) >= 2
    /\ queue[Len(queue)] = Len(kind)
    /\ result[Len(kind)] = "ok"

\* C14: the pool holds its Sender in every state before drop begins, and
\* has given it up in every state where drop is in its loop, is joining, has
\* ended, or has taken or joined any worker's handle.
C14_SenderDroppedBeforeJoin ==
    /\ (ctor = "ok" /\ drops = 0) => sender = "Some"
    /\ dpc \in {"loop", "join", "done", "panicked"} => sender = "None"
    /\ \A i \in WorkerIds :
        (workers[i].thread = "None" \/ joined[i] > 0) => sender = "None"

\* drop is blocked in a join while the worker it waits for runs a job and
\* another job is still queued.
C14_Witness ==
    /\ dpc = "join"
    /\ sender = "None"
    /\ wpc[di] = "run"
    /\ queue # <<>>

\* The state of a worker in the terms of the specification.
WState(p) == IF p \in {"lock", "recv"} THEN "Idle"
             ELSE IF p = "run" THEN "Running"
             ELSE "Terminated"

\* Worker i leaves Idle for Terminated only with the Sender dropped and the
\* queue empty, and never leaves Terminated nor receives or runs a job there.
ExitsOnlyWhenDrained(i) ==
    /\ (WState(wpc[i]) = "Idle" /\ WState(wpc'[i]) = "Terminated") =>
        /\ sender = "None"
        /\ queue = <<>>
        /\ wpc'[i] = "exited"
    /\ WState(wpc[i]) = "Terminated" =>
        /\ wpc'[i] = wpc[i]
        /\ cur'[i] = cur[i]

\* C15 as stated: a worker only moves Idle -> Running, Running -> Idle and
\* Idle -> Terminated, the last only with the Sender dropped and the queue
\* empty; Terminated is absorbing.
C15_AsStated ==
    [][\A i \in WorkerIds :
        /\ \/ WState(wpc'[i]) = WState(wpc[i])
           \/ <<WState(wpc[i]), WState(wpc'[i])>> \in
                {<<"Idle", "Running">>, <<"Running", "Idle">>,
                 <<"Idle", "Terminated">>}
        /\ ExitsOnlyWhenDrained(i)]_vars

\* C15, amended: a worker only moves Idle -> Running (recv returned a job),
\* Running -> Idle (the job returned), Idle -> Terminated, and Running ->
\* Terminated when the job it runs panics; Idle -> Terminated happens only
\* with the Sender dropped and the queue empty; Terminated is absorbing.
C15_WorkerStateMachine ==
    [][\A i \in WorkerIds :
        /\ \/ WState(wpc'[i]) = WState(wpc[i])
           \/ /\ <<WState(wpc[i]), WState(wpc'[i])>> = <<"Idle", "Running">>
              /\ queue # <<>> /\ cur'[i] = Head(queue)
           \/ /\ <<WState(wpc[i]), WState(wpc'[i])>> = <<"Running", "Idle">>
              /\ kind[cur[i]] = "ret" /\ cur[i] \in finished'
           \/ <<WState(wpc[i]), WState(wpc'[i])>> = <<"Idle", "Terminated">>
           \/ /\ <<WState(wpc[i]), WState(wpc'[i])>> = <<"Running", "Terminated">>
              /\ kind[cur[i]] = "panic" /\ wpc'[i] = "panicked"
        /\ ExitsOnlyWhenDrained(i)]_vars

\* One worker ended by the panic of its job, and another left its loop on
\* the closed channel after running a job.
C15_Witness ==
    \E i, k \in WorkerIds :
        /\ wpc[i] = "panicked"
        /\ wpc[k] = "exited"
        /\ finished # {}

\* C16: once drop has returned, running its body again takes no handle,
\* joins no thread and does not panic: from the second entry on, no step
\* changes the workers' handles, the join counts, the worker threads or the
\* queue, the Sender stays None, and drop is never in a join or panicked.
C16_IdempotentTeardown ==
    [][drops' >= 2 =>
        /\ sender = "None" /\ sender' = "None"
        /\ workers' = workers
        /\ joined' = joined
        /\ wpc' = wpc
        /\ queue' = queue
        /\ dpc' \in {"loop", "done"}]_vars

\* drop has returned a second time on a pool of two workers that had run
\* jobs; every handle is None and was joined once.
C16_Witness ==
    /\ drops = 2
    /\ dpc = "done"
    /\ Len(workers) = 2
    /\ finished # {}
    /\ \A i \in WorkerIds : workers[i].thread = "None" /\ joined[i] = 1

\* C17: the step that drops the Sender leaves every worker, the job it
\* holds and the queue as they were; a worker has seen the closed channel
\* only when the queue was empty and every accepted job had been received
\* and its body called; a join has returned only for a thread that has
\* ended, its last job over; and, under fair scheduling, a job with a
\* returning body that is running after the Sender was dropped runs to its
\* end.
C17_CloseDoesNotInterrupt ==
    /\ [][(sender = "Some" /\ sender' = "None") =>
            /\ wpc' = wpc /\ cur' = cur
            /\ queue' = queue
            /\ finished' = finished /\ discarded' = discarded]_vars
    /\ [](\A i \in WorkerIds :
            /\ wpc[i] = "exited" =>
                /\ queue = <<>>
                /\ cur[i] = 0
                /\ \A j \in Accepted : j \in Range(recvLog) /\ runs[j] = 1
            /\ joined[i] >= 1 => wpc[i] \in Terminated)
    /\ \A j \in 1..MaxJobs :
        (/\ sender = "None"
         /\ j \in Jobs
         /\ kind[j] = "ret"
         /\ \E i \in WorkerIds : wpc[i] = "run" /\ cur[i] = j) ~> (j \in finished)

\* The join of the first worker has returned while drop waits for the
\* second, which is still running a job, with a job finished before.
C17_Witness ==
    /\ sender = "None"
    /\ dpc = "join"
    /\ di = 2
    /\ joined[1] = 1
    /\ wpc[2] = "run"
    /\ finished # {}

\* Some worker thread is alive and not running a job.
SomeWorkerIdle == \E i \in WorkerIds : wpc[i] \in {"lock", "recv"}

\* A worker inside recv holds the lock for as long as it stays there, so at
\* most one worker is inside recv and the other idle workers wait at the
\* lock.
OneWaiterInRecv ==
    /\ Cardinality({i \in WorkerIds : wpc[i] = "recv"}) <= 1
    /\ \A i \in WorkerIds :
        /\ wpc[i] = "recv" => lock = i
        /\ (wpc[i] = "lock" /\ lock # 0) => wpc[lock] = "recv"

\* C18 as stated: at most one worker waits inside recv, holding the lock,
\* and under fair scheduling any job that is queued while some live worker
\* is not running is eventually received.
C18_AsStated ==
    /\ []OneWaiterInRecv
    /\ \A j \in 1..MaxJobs :
        (j \in Range(queue) /\ SomeWorkerIdle) ~> (j \in Range(recvLog))

\* C18, amended: at most one worker waits inside recv, holding the lock, and
\* under fair scheduling the job at the head of the queue, while some live
\* worker is not running, is eventually received.
C18_NoLostWakeup ==
    /\ []OneWaiterInRecv
    /\ \A j \in 1..MaxJobs :
        (queue # <<>> /\ Head(queue) = j /\ SomeWorkerIdle) ~>
            (j \in Range(recvLog))

\* A job was sent while one worker was blocked inside recv, holding the
\* lock, and the other waited for the lock.
C18_Witness ==
    \E i, k \in WorkerIds :
        /\ wpc[i] = "recv" /\ lock = i
        /\ wpc[k] = "lock"
        /\ queue # <<>>
        /\ recvLog = <<>>

\* Every worker thread of the pool has ended by a panic.
AllPanicked == WorkerIds # {} /\ \A i \in WorkerIds : wpc[i] = "panicked"

\* C19: once every worker has ended by the panic of its job, no clone of
\* the receiver is left and nothing is queued; an execute called then, on a
\* pool that still holds its Sender, panics and queues nothing.
C19_AllWorkersDead ==
    /\ [](AllPanicked =>
            /\ ~ReceiverAlive(wpc)
            /\ queue = <<>>
            /\ \A i \in WorkerIds : kind[cur[i]] = "panic")
    /\ [][(Len(kind') = Len(kind) + 1 /\ AllPanicked) =>
            /\ result'[Len(kind')] = "panic"
            /\ queue' = queue
            /\ recvLog' = recvLog /\ wpc' = wpc]_vars

\* Both workers of a pool have panicked, and the pool, still holding its
\* Sender, has turned an execute down.
C19_Witness ==
    /\ AllPanicked
    /\ Len(workers) = 2
    /\ sender = "Some"
    /\ Rejected # {}

\* C20: in a pool of one worker whose jobs all return, jobs start in the
\* order of submission, one at a time: a job has started only when every
\* job accepted before it has finished, and at most one job is running.
C20_SingleWorkerSequential ==
    (ctor = "ok" /\ size = 1 /\ AllReturn) =>
        /\ \A m, n \in DOMAIN recvLog : m < n => recvLog[m] < recvLog[n]
        /\ \A j \in Range(recvLog) :
            \A a \in Accepted : a < j => a \in finished
        /\ \A j \in finished : \A a \in Accepted : a < j => a \in finished
        /\ Cardinality({j \in Jobs : runs[j] >= 1 /\ j \notin finished}) <= 1

\* The one worker has finished jobs 1 and 2, in that order, and is running
\* job 3.
C20_Witness ==
    /\ size = 1
    /\ AllReturn
    /\ recvLog = <<1, 2, 3>>
    /\ finished = {1, 2}
    /\ wpc[1] = "run"

=============================================================================
